---- MODULE Spec2Model ----
(***************************************************************************)
(* Model of the quiz-chain solver of src/main.py: the chain controller     *)
(* solve_quiz_chain together with the page fetcher, the LLM-backed parser, *)
(* the data-source resolver, the answer synthesizer and the submitter.     *)
(*                                                                         *)
(* Strings the code inspects (URLs) are sequences of one-character         *)
(* strings, so that startswith / endswith are computed as the code         *)
(* computes them.  JSON values coming back from the LLM or the quiz server *)
(* are records [t, s]: t is the JSON type, s the characters of a string.   *)
(* The network, the browser and the LLM are the environment: each call     *)
(* draws its outcome from a small set.                                     *)
(***************************************************************************)
EXTENDS Integers, Sequences, FiniteSets, TLC

VARIABLES
    platform_system,  \* platform.system() of the process
    pc,               \* position of solve_quiz_chain
    outcome,          \* the return statement the run left through
    exc,              \* exception caught by the handler at main.py:499
    current_url,      \* solve_quiz_chain.current_url
    quiz_count,       \* solve_quiz_chain.quiz_count
    elapsed,          \* time.time() - start_time
    html,             \* page fetched in this iteration
    parsed,           \* descriptor parsed in this iteration
    idx,              \* position of the for loop over data_sources
    fetched_data,     \* solve_quiz_with_llm.fetched_data, a sequence of sections
    answer,           \* answer returned by solve_quiz_with_llm
    response,         \* JSON body returned by submit_answer
    last_post,        \* the POST issued by submit_answer in this iteration
    n_fetch,          \* calls of fetch_quiz_page made at main.py:457
    n_submit,         \* calls of submit_answer made at main.py:485
    fn_call,          \* a single function call under test (function specifications)
    fn_ret,           \* its result
    fetch_frame,      \* the frame of one fetch_quiz_page call, step by step
    runs              \* the frames of two solve_quiz_chain tasks on one event loop

vars ==
    <<platform_system, pc, outcome, exc, current_url, quiz_count, elapsed, html,
      parsed, idx, fetched_data, answer, response, last_post, n_fetch, n_submit,
      fn_call, fn_ret, fetch_frame, runs>>

chain_vars ==
    <<pc, outcome, exc, current_url, quiz_count, elapsed, html, parsed, idx,
      fetched_data, answer, response, last_post, n_fetch, n_submit>>

---------------------------------------------------------------------------
\* Program constants and bounds of the model.

\* while quiz_count < 100
IterCap == 100

\* if time.time() - start_time > 170
Budget == 170

\* html_content[:1500] and data[:500] are kept symbolic (see "excerpt", "preview").

\* Seconds one awaited call may take besides returning at once.  Two long
\* calls land exactly on the budget, three exceed it.
LongDelay == 85

\* Length of the longest data_sources list the parser hands over.
MaxSources == 2

Delays == {0, LongDelay}

---------------------------------------------------------------------------
\* Strings.

StartsWith(s, p) ==
    /\ Len(s) >= Len(p)
    /\ SubSeq(s, 1, Len(p)) = p

EndsWith(s, p) ==
    /\ Len(s) >= Len(p)
    /\ SubSeq(s, Len(s) - Len(p) + 1, Len(s)) = p

\* s.split('.')[-1]
LastDotPart(s) ==
    LET dots == {i \in 1..Len(s) : s[i] = "."}
    IN  IF dots = {} THEN s
        ELSE LET last == CHOOSE i \in dots : \A j \in dots : j <= i
             IN  SubSeq(s, last + 1, Len(s))

HTTP == <<"h", "t", "t", "p">>
ORIGIN == <<"h", "t", "t", "p", "s", ":", "/", "/", "x">>
SCHEME_HTTP == <<"h", "t", "t", "p", ":", "/", "/">>
SCHEME_HTTPS == <<"h", "t", "t", "p", "s", ":", "/", "/">>

EXT_MP3 == <<".", "m", "p", "3">>
EXT_OPUS == <<".", "o", "p", "u", "s">>
EXT_WAV == <<".", "w", "a", "v">>
EXT_FLAC == <<".", "f", "l", "a", "c">>
EXT_OGG == <<".", "o", "g", "g">>
EXT_M4A == <<".", "m", "4", "a">>
EXT_CSV == <<".", "c", "s", "v">>
EXT_JSON == <<".", "j", "s", "o", "n">>
EXT_PDF == <<".", "p", "d", "f">>
EXT_TXT == <<".", "t", "x", "t">>

\* source.endswith(('.mp3', '.opus', '.wav', '.flac', '.ogg', '.m4a'))
AudioExts == {EXT_MP3, EXT_OPUS, EXT_WAV, EXT_FLAC, EXT_OGG, EXT_M4A}

\* source.endswith(('.csv', '.json', '.pdf', '.txt'))
DataExts == {EXT_CSV, EXT_JSON, EXT_PDF, EXT_TXT}

\* str.upper() on the extensions that reach it
Upper(ext) ==
    CASE ext = <<"c", "s", "v">> -> "CSV"
      [] ext = <<"j", "s", "o", "n">> -> "JSON"
      [] ext = <<"p", "d", "f">> -> "PDF"
      [] ext = <<"t", "x", "t">> -> "TXT"
      [] OTHER -> "OTHER"

\* URLs of the modelled world.
U0 == ORIGIN \o <<"/", "q", "1">>
U1 == ORIGIN \o <<"/", "q", "2">>
REL_NEXT == <<"/", "q", "3">>
SUBMIT == ORIGIN \o <<"/", "s">>
REL_SUBMIT == <<"/", "s">>
SRC_MP3 == ORIGIN \o <<"/", "a">> \o EXT_MP3
SRC_CSV == ORIGIN \o <<"/", "d">> \o EXT_CSV
SRC_PAGE == ORIGIN \o <<"/", "p">>
SRC_REL == <<"d">> \o EXT_CSV
QUESTION == <<"2", "+", "2", "?">>

---------------------------------------------------------------------------
\* JSON values.

JNull == [t |-> "null", s |-> <<>>]
JStr(s) == [t |-> "str", s |-> s]
JNum == [t |-> "num", s |-> <<>>]

\* Python truth value of a JSON scalar (the number modelled is non-zero).
Truthy(j) ==
    \/ j.t = "str" /\ j.s # <<>>
    \/ j.t = "num"

JList(items) == [t |-> "list", items |-> items]
JNotList(t) == [t |-> t, items |-> <<>>]

\* Python truth value of the data_sources value
TruthyList(l) ==
    \/ l.t = "list" /\ l.items # <<>>
    \/ l.t = "num"

---------------------------------------------------------------------------
\* The environment of one call: whether the headless browser renders the URL,
\* whether a plain HTTP request to it succeeds, and whether the LLM call
\* returns text, returns text that is blank, or fails.

Envs == [render : BOOLEAN, http : BOOLEAN, llm : {"ok", "blank", "fail"}]

\* The URL cannot be reached by any strategy.
Unreachable(env) == ~env.render /\ ~env.http

Platforms == {"Linux", "Windows"}

\* httpx and the browser refuse a URL that carries no http(s) scheme.
IsHttpUrl(url) == StartsWith(url, SCHEME_HTTP) \/ StartsWith(url, SCHEME_HTTPS)

\* client.get(url) / httpx.get(url) returns a response
HttpGetOk(url, env) == IsHttpUrl(url) /\ env.http

\* page.goto(url) and page.content() succeed
RenderOk(url, env) == IsHttpUrl(url) /\ env.render

PageResult(raised, via, tried) == [raised |-> raised, via |-> via, tried |-> tried]

\* fetch_quiz_page: on Windows a single HTTP GET; elsewhere the browser first
\* and, on any failure of it, an HTTP GET whose failure propagates.
fetch_quiz_page(url, plat, env) ==
    IF plat = "Windows"
    THEN IF HttpGetOk(url, env)
         THEN PageResult(FALSE, "httpx", <<"httpx">>)
         ELSE PageResult(TRUE, "none", <<"httpx">>)
    ELSE IF RenderOk(url, env)
         THEN PageResult(FALSE, "playwright", <<"playwright">>)
         ELSE IF HttpGetOk(url, env)
              THEN PageResult(FALSE, "httpx", <<"playwright", "httpx">>)
              ELSE PageResult(TRUE, "none", <<"playwright", "httpx">>)

\* transcribe_audio: every failure inside is caught and turned into the
\* bracketed failure text; the function never raises.  On success it returns
\* response.text.strip(), whatever is left of the text.
transcribe_audio(audio_url, env) ==
    IF ~HttpGetOk(audio_url, env) THEN "transcription_failed_marker"
    ELSE IF env.llm = "fail" THEN "transcription_failed_marker"
    ELSE IF env.llm = "blank" THEN ""
    ELSE "transcript"

SourceResult(raised, kind, content) ==
    [raised |-> raised, kind |-> kind, content |-> content]

fetch_data_source_NoCatch(source, plat, env) ==
    IF ~Truthy(source) THEN SourceResult(FALSE, "unknown", "invalid_source")
    ELSE IF source.t # "str" THEN SourceResult(TRUE, "raised", "AttributeError")
    ELSE IF ~StartsWith(source.s, HTTP)
    THEN SourceResult(FALSE, "unknown", "invalid_source")
    ELSE IF \E e \in AudioExts : EndsWith(source.s, e)
    THEN SourceResult(FALSE, "AUDIO (Transcribed)", transcribe_audio(source.s, env))
    ELSE IF \E e \in DataExts : EndsWith(source.s, e)
    THEN LET file_ext == Upper(LastDotPart(source.s))
         IN  IF ~HttpGetOk(source.s, env)
             THEN SourceResult(TRUE, "raised", "ConnectError")
             ELSE IF file_ext = "PDF"
                  THEN SourceResult(FALSE, "PDF (Preview)", "preview")
                  ELSE SourceResult(FALSE, file_ext, "body")
    ELSE IF fetch_quiz_page(source.s, plat, env).raised
         THEN SourceResult(TRUE, "raised", "ConnectError")
         ELSE SourceResult(FALSE, "WEBPAGE (JavaScript Rendered)", "page_text")

\* fetch_data_source(source) -> (file_type, content).  The test at line 296
\* runs outside the try block: a truthy non-string source raises there.
fetch_data_source(source, plat, env) ==
    IF ~Truthy(source) THEN SourceResult(FALSE, "unknown", "invalid_source")
    ELSE IF source.t # "str" THEN SourceResult(TRUE, "raised", "AttributeError")
    ELSE IF ~StartsWith(source.s, HTTP)
    THEN SourceResult(FALSE, "unknown", "invalid_source")
    ELSE IF \E e \in AudioExts : EndsWith(source.s, e)
    THEN SourceResult(FALSE, "AUDIO (Transcribed)", transcribe_audio(source.s, env))
    ELSE IF \E e \in DataExts : EndsWith(source.s, e)
    THEN LET file_ext == Upper(LastDotPart(source.s))
         IN  IF ~HttpGetOk(source.s, env)
             THEN SourceResult(FALSE, "ERROR", "failed_to_fetch")
             ELSE IF file_ext = "PDF"
                  THEN SourceResult(FALSE, "PDF (Preview)", "preview")
                  ELSE SourceResult(FALSE, file_ext, "body")
    ELSE IF fetch_quiz_page(source.s, plat, env).raised
         THEN SourceResult(FALSE, "ERROR", "failed_to_fetch")
         ELSE SourceResult(FALSE, "WEBPAGE (JavaScript Rendered)", "page_text")

\* The calls fetch_data_source makes on the world outside, in order: a browser
\* launch ("playwright"), an HTTP GET ("httpx"), an LLM call ("llm").
transcribe_audio_calls(audio_url, env) ==
    IF HttpGetOk(audio_url, env) THEN <<"httpx", "llm">> ELSE <<"httpx">>

fetch_data_source_calls(source, plat, env) ==
    IF ~Truthy(source) THEN <<>>
    ELSE IF source.t # "str" THEN <<>>
    ELSE IF ~StartsWith(source.s, HTTP) THEN <<>>
    ELSE IF \E e \in AudioExts : EndsWith(source.s, e)
    THEN transcribe_audio_calls(source.s, env)
    ELSE IF \E e \in DataExts : EndsWith(source.s, e) THEN <<"httpx">>
    ELSE fetch_quiz_page(source.s, plat, env).tried

\* One labelled section of fetched_data (main.py:359 and main.py:364).
Section(source, r) ==
    IF r.raised
    THEN [label |-> "error_fetching", kind |-> "ERROR", source |-> source,
          content |-> r.content]
    ELSE [label |-> "typed", kind |-> r.kind, source |-> source,
          content |-> r.content]

---------------------------------------------------------------------------
\* The parser.

Descriptor(q, su, ds, au) ==
    [t |-> "dict", question |-> q, submit_url |-> su, data_sources |-> ds,
     answer_url_json |-> au]

NoParsed ==
    [t |-> "none", question |-> JNull, submit_url |-> JNull,
     data_sources |-> JNotList("null"), answer_url_json |-> JNull]

\* JSON the model can return that is not an object (a list, a number).
NonDict ==
    [t |-> "nondict", question |-> JNull, submit_url |-> JNull,
     data_sources |-> JNotList("null"), answer_url_json |-> JNull]

\* The data sources the model may name, in a fixed circular order: audio,
\* a file named twice, a page, a relative name, null, a number.
SourcePool ==
    <<JStr(SRC_MP3), JStr(SRC_CSV), JStr(SRC_CSV), JStr(SRC_PAGE), JStr(SRC_REL),
      JNull, JNum>>

Window(start, n) ==
    [i \in 1..n |-> SourcePool[((start + i - 2) % Len(SourcePool)) + 1]]

DataSourceLists ==
    {Window(start, n) : start \in 1..Len(SourcePool), n \in 0..MaxSources}

\* parsed.get(key, "") of a missing key is the empty string.
Questions == {JStr(QUESTION), JStr(<<>>), JNull}
SubmitUrls == {JStr(SUBMIT), JStr(REL_SUBMIT), JStr(<<>>), JNull}

\* What json.loads can hand back for the page at cur.  Nothing keeps the
\* reply from naming its submit_url among its data_sources.
ParsedValues(cur) ==
    {Descriptor(JStr(QUESTION), JStr(SUBMIT), JList(l), JStr(cur)) :
        l \in DataSourceLists \cup {<<JStr(SUBMIT)>>}}
    \cup {Descriptor(q, su, JList(Window(1, MaxSources)), JStr(cur)) :
            q \in Questions, su \in SubmitUrls}
    \cup {Descriptor(JStr(QUESTION), JStr(SUBMIT), JNotList(t), JStr(<<>>)) :
            t \in {"null", "num"}}
    \cup {NonDict}

\* The LLM's turn: the call fails, or it returns text that is JSON, JSON
\* wrapped in other text, or no JSON at all.
LlmReplies(cur) ==
    {[ok |-> FALSE, raw |-> "none", value |-> NoParsed]}
    \cup {[ok |-> TRUE, raw |-> "garbage", value |-> NoParsed]}
    \cup {[ok |-> TRUE, raw |-> r, value |-> v] :
            r \in {"json", "wrapped"}, v \in ParsedValues(cur)}

ParseResult(raised, value) == [raised |-> raised, value |-> value]

parse_quiz_with_llm_Defaults(llm) ==
    IF ~llm.ok THEN ParseResult("LlmError", NoParsed)
    ELSE IF llm.raw = "json" THEN ParseResult("none", llm.value)
    ELSE IF llm.raw = "wrapped" THEN ParseResult("none", llm.value)
    ELSE ParseResult("none", Descriptor(JStr(<<>>), JStr(<<>>), JList(<<>>), JStr(<<>>)))

\* parse_quiz_with_llm: json.loads(raw); on JSONDecodeError the text between
\* the first "{" and the last "}"; otherwise RuntimeError.  A failure of the
\* LLM call itself is not caught here.
parse_quiz_with_llm(llm) ==
    IF ~llm.ok THEN ParseResult("LlmError", NoParsed)
    ELSE IF llm.raw = "json" THEN ParseResult("none", llm.value)
    ELSE IF llm.raw = "wrapped" THEN ParseResult("none", llm.value)
    ELSE ParseResult("RuntimeError", NoParsed)

\* The stages of parse_quiz_with_llm on the characters of the LLM's text.
\* The text is written in four characters: "{" and "}", "v" for what makes up
\* a JSON value or the members of an object, "x" for anything else.

Alphabet == {"{", "}", "v", "x"}

\* Length of the longest text.
MaxRaw == 4

Texts == UNION {[1..n -> Alphabet] : n \in 0..MaxRaw}

\* raw[:200]
PrefixLen == 200

\* json.loads(t): a lone value, an empty object, an object with members;
\* everything else raises JSONDecodeError.
JsonLoads(t) ==
    IF t = <<"v">> THEN [ok |-> TRUE, value |-> NonDict]
    ELSE IF t = <<"{", "}">>
    THEN [ok |-> TRUE,
          value |-> Descriptor(JStr(<<>>), JStr(<<>>), JList(<<>>), JStr(<<>>))]
    ELSE IF t = <<"{", "v", "}">>
    THEN [ok |-> TRUE,
          value |-> Descriptor(JStr(QUESTION), JStr(SUBMIT), JList(<<>>), JStr(U0))]
    ELSE [ok |-> FALSE, value |-> NoParsed]

\* raw.index(c) and raw.rindex(c), counted from 1; 0 where Python raises ValueError
Index(raw, c) ==
    IF \E i \in 1..Len(raw) : raw[i] = c
    THEN CHOOSE i \in 1..Len(raw) : raw[i] = c /\ \A j \in 1..(i - 1) : raw[j] # c
    ELSE 0

RIndex(raw, c) ==
    IF \E i \in 1..Len(raw) : raw[i] = c
    THEN CHOOSE i \in 1..Len(raw) : raw[i] = c /\ \A j \in (i + 1)..Len(raw) : raw[j] # c
    ELSE 0

\* raw[raw.index("{"): raw.rindex("}")+1], empty when the last "}" comes first
Braced(raw) == SubSeq(raw, Index(raw, "{"), RIndex(raw, "}"))

\* The second json.loads, inside the bare except: a missing brace raises
\* ValueError there, like a substring that is not JSON.
LoadsBraced(raw) ==
    IF Index(raw, "{") = 0 \/ RIndex(raw, "}") = 0
    THEN [ok |-> FALSE, value |-> NoParsed]
    ELSE JsonLoads(Braced(raw))

\* The reply of the LLM whose text is raw, as parse_quiz_with_llm sees it.
LlmText(ok, raw) ==
    IF ~ok THEN [ok |-> FALSE, raw |-> "none", value |-> NoParsed]
    ELSE IF JsonLoads(raw).ok
    THEN [ok |-> TRUE, raw |-> "json", value |-> JsonLoads(raw).value]
    ELSE IF LoadsBraced(raw).ok
    THEN [ok |-> TRUE, raw |-> "wrapped", value |-> LoadsBraced(raw).value]
    ELSE [ok |-> TRUE, raw |-> "garbage", value |-> NoParsed]

\* f"Failed to parse: {raw[:200]}"
ErrorText(raw) ==
    SubSeq(raw, 1, IF Len(raw) < PrefixLen THEN Len(raw) ELSE PrefixLen)

---------------------------------------------------------------------------
\* The submitter.

STUDENT_EMAIL == "configured_email"
STUDENT_SECRET == "configured_secret"

NoPost == [to |-> JNull, email |-> "", secret |-> "", url |-> JNull, answer |-> ""]

Post_SecretFromAnswer(submit_url, quiz_url, ans) ==
    [to |-> submit_url, email |-> STUDENT_EMAIL, secret |-> ans,
     url |-> quiz_url, answer |-> ans]

\* submit_answer's request: the payload of main.py:417-422 and its target.
Post(submit_url, quiz_url, ans) ==
    [to |-> submit_url, email |-> STUDENT_EMAIL, secret |-> STUDENT_SECRET,
     url |-> quiz_url, answer |-> ans]

NoResponse == [kind |-> "none", correct |-> "absent", url |-> JNull]

\* What client.post(...) and resp.json() can produce: a transport failure or
\* a body that is not JSON (both raise), JSON that is not an object, or an
\* object whose "correct" is true, false, absent, or a value that is truthy
\* without being the boolean (the string "true", the number 1), and whose
\* "url" is absent or null, empty, absolute or relative.
ServerReplies ==
    {[kind |-> k, correct |-> "absent", url |-> JNull] : k \in {"raise", "nondict"}}
    \cup {[kind |-> "dict", correct |-> c, url |-> u] :
            c \in {"True", "False", "absent", "truthy"},
            u \in {JNull, JStr(<<>>), JStr(U1), JStr(REL_NEXT)}}

IsCorrect_Truthy(r) == r.kind = "dict" /\ r.correct \in {"True", "truthy"}

\* response.get("correct") is True
IsCorrect(r) == r.kind = "dict" /\ r.correct = "True"

\* No fetch_quiz_page call is being followed step by step.
NoFrame ==
    [at |-> "idle", playwright |-> FALSE, browser |-> "none", page |-> "none",
     render |-> "none", tried |-> <<>>, via |-> "none"]

---------------------------------------------------------------------------
\* The chain controller, solve_quiz_chain.

NoHtml == [src |-> <<>>]

\* The clock is of no further interest once it is past the budget.
Later(e, d) == IF e > Budget THEN e ELSE e + d

Init ==
    /\ platform_system \in Platforms
    /\ pc = "loop"
    /\ outcome = "none"
    /\ exc = "none"
    /\ current_url = U0
    /\ quiz_count = 0
    /\ elapsed = 0
    /\ html = NoHtml
    /\ parsed = NoParsed
    /\ idx = 0
    /\ fetched_data = <<>>
    /\ answer = ""
    /\ response = NoResponse
    /\ last_post = NoPost
    /\ n_fetch = 0
    /\ n_submit = 0
    /\ fn_call = [op |-> "none"]
    /\ fn_ret = [op |-> "none"]
    /\ fetch_frame = NoFrame
    /\ runs = <<>>

\* The event counters n_fetch and n_submit stop one past the iteration cap.
Count(n) == IF n > IterCap THEN n ELSE n + 1

LoopGuard_OffByOne(count) == count <= IterCap

\* while quiz_count < 100
LoopGuard(count) == count < IterCap

DeadlinePassed_Never(e) == FALSE

DeadlinePassed_Early(e) == e >= LongDelay

\* if time.time() - start_time > 170
DeadlinePassed(e) == e > Budget

NextCount_Stuck(count) == count

\* quiz_count += 1
NextCount(count) == count + 1

IsMalformed_OnlyUrl(p) == ~Truthy(p.submit_url)

\* if not submit_url or not question
IsMalformed(p) == ~Truthy(p.submit_url) \/ ~Truthy(p.question)

\* A return statement of the loop body, or the end of the function.
Finish(how) ==
    /\ pc' = "done"
    /\ outcome' = how
    /\ exc' = "none"

ExceptHandler_Continue(e) ==
    /\ pc' = "loop"
    /\ outcome' = outcome
    /\ exc' = e

\* except Exception as e: ... return
ExceptHandler(e) ==
    /\ pc' = "done"
    /\ outcome' = "error"
    /\ exc' = e

VerdictBranch_FollowsAnyUrl(reply) ==
    IF IsCorrect(reply) /\ ~Truthy(reply.url) THEN "success"
    ELSE IF Truthy(reply.url) THEN "advance"
    ELSE "retry"

VerdictBranch_SuccessOnNoUrl(reply) ==
    IF ~Truthy(reply.url) THEN "success"
    ELSE IF IsCorrect(reply) THEN "advance"
    ELSE "retry"

\* The branch on the verdict, main.py:488-497.
VerdictBranch(reply) ==
    IF IsCorrect(reply)
    THEN IF ~Truthy(reply.url) THEN "success" ELSE "advance"
    ELSE "retry"

\* The loop condition is false: the function ends.
CapExit ==
    /\ pc = "loop"
    /\ ~LoopGuard(quiz_count)
    /\ Finish("cap")
    /\ UNCHANGED <<platform_system, current_url, quiz_count, elapsed, html, parsed,
                   idx, fetched_data, answer, response, last_post, n_fetch,
                   n_submit, fn_call, fn_ret, fetch_frame, runs>>

\* The deadline check fires: return.
TimeoutExit ==
    /\ pc = "loop"
    /\ LoopGuard(quiz_count)
    /\ DeadlinePassed(elapsed)
    /\ Finish("timeout")
    /\ UNCHANGED <<platform_system, current_url, quiz_count, elapsed, html, parsed,
                   idx, fetched_data, answer, response, last_post, n_fetch,
                   n_submit, fn_call, fn_ret, fetch_frame, runs>>

\* Both checks pass: quiz_count += 1 and into the try block.
StartIteration ==
    /\ pc = "loop"
    /\ LoopGuard(quiz_count)
    /\ ~DeadlinePassed(elapsed)
    /\ quiz_count' = NextCount(quiz_count)
    /\ pc' = "fetch"
    /\ response' = NoResponse
    /\ UNCHANGED <<platform_system, outcome, exc, current_url, elapsed, html,
                   parsed, idx, fetched_data, answer, last_post, n_fetch, n_submit,
                   fn_call, fn_ret, fetch_frame, runs>>

\* html = await fetch_quiz_page(current_url)
FetchPage ==
    /\ pc = "fetch"
    /\ \E env \in Envs, d \in Delays :
        LET r == fetch_quiz_page(current_url, platform_system, env)
        IN  /\ elapsed' = Later(elapsed, d)
            /\ n_fetch' = Count(n_fetch)
            /\ IF r.raised
               THEN /\ ExceptHandler("FetchError")
                    /\ html' = html
               ELSE /\ pc' = "parse"
                    /\ html' = [src |-> current_url]
                    /\ UNCHANGED <<outcome, exc>>
    /\ UNCHANGED <<platform_system, current_url, quiz_count, parsed, idx,
                   fetched_data, answer, response, last_post, n_submit, fn_call,
                   fn_ret, fetch_frame, runs>>

\* parsed = parse_quiz_with_llm(...), the four .get calls, the check of
\* main.py:468 and the entry of solve_quiz_with_llm up to its first await
\* (len(data_sources) at main.py:349 raises on a number).
ParsePage ==
    /\ pc = "parse"
    /\ \E llm \in LlmReplies(current_url), d \in Delays :
        LET r == parse_quiz_with_llm(llm)
            p == r.value
        IN  /\ elapsed' = Later(elapsed, d)
            /\ IF r.raised # "none"
               THEN /\ ExceptHandler(r.raised)
                    /\ UNCHANGED <<parsed, idx>>
               ELSE IF p.t # "dict"
               THEN /\ ExceptHandler("AttributeError")
                    /\ UNCHANGED <<parsed, idx>>
               ELSE /\ parsed' = p
                    /\ IF IsMalformed(p)
                       THEN /\ Finish("malformed")
                            /\ idx' = idx
                       ELSE IF ~TruthyList(p.data_sources)
                       THEN /\ pc' = "synth"
                            /\ idx' = idx
                            /\ UNCHANGED <<outcome, exc>>
                       ELSE IF p.data_sources.t # "list"
                       THEN /\ ExceptHandler("TypeError")
                            /\ idx' = idx
                       ELSE /\ pc' = "resolve"
                            /\ idx' = 1
                            /\ UNCHANGED <<outcome, exc>>
    /\ UNCHANGED <<platform_system, current_url, quiz_count, html, fetched_data,
                   answer, response, last_post, n_fetch, n_submit,
                   fn_call, fn_ret, fetch_frame, runs>>

ResolveSource_Aborts ==
    /\ pc = "resolve"
    /\ \E env \in Envs, d \in Delays :
        LET source == parsed.data_sources.items[idx]
            r == fetch_data_source(source, platform_system, env)
        IN  /\ elapsed' = Later(elapsed, d)
            /\ IF r.raised \/ r.kind = "ERROR"
               THEN /\ ExceptHandler("SourceFetchError")
                    /\ UNCHANGED <<fetched_data, idx>>
               ELSE /\ fetched_data' = Append(fetched_data, Section(source, r))
                    /\ idx' = idx + 1
                    /\ pc' = IF idx = Len(parsed.data_sources.items)
                             THEN "synth" ELSE "resolve"
                    /\ UNCHANGED <<outcome, exc>>
    /\ UNCHANGED <<platform_system, current_url, quiz_count, html, parsed, answer,
                   response, last_post, n_fetch, n_submit,
                   fn_call, fn_ret, fetch_frame, runs>>

AddSection_Prepend(sections, section) == <<section>> \o sections

\* fetched_data += ...
AddSection(sections, section) == Append(sections, section)

\* One turn of "for source in data_sources": fetch_data_source and the
\* section appended to fetched_data, also when the call raised (main.py:362).
ResolveSource ==
    /\ pc = "resolve"
    /\ \E env \in Envs, d \in Delays :
        LET source == parsed.data_sources.items[idx]
            r == fetch_data_source(source, platform_system, env)
        IN  /\ elapsed' = Later(elapsed, d)
            /\ fetched_data' = AddSection(fetched_data, Section(source, r))
    /\ idx' = idx + 1
    /\ pc' = IF idx = Len(parsed.data_sources.items) THEN "synth" ELSE "resolve"
    /\ UNCHANGED <<platform_system, outcome, exc, current_url, quiz_count, html,
                   parsed, answer, response, last_post, n_fetch, n_submit, fn_call,
                   fn_ret, fetch_frame, runs>>

Synthesize_Raises ==
    /\ pc = "synth"
    /\ \E ok \in BOOLEAN, d \in Delays :
        /\ elapsed' = Later(elapsed, d)
        /\ IF ok
           THEN /\ answer' = "llm_answer"
                /\ pc' = "submit"
                /\ UNCHANGED <<outcome, exc>>
           ELSE /\ answer' = answer
                /\ ExceptHandler("LlmError")
    /\ fetched_data' = <<>>
    /\ idx' = 0
    /\ UNCHANGED <<platform_system, current_url, quiz_count, html,
                   parsed, response, last_post, n_fetch, n_submit,
                   fn_call, fn_ret, fetch_frame, runs>>

\* The answer-synthesis LLM call; its failure is caught and becomes "ERROR".
Synthesize ==
    /\ pc = "synth"
    /\ \E ok \in BOOLEAN, d \in Delays :
        /\ elapsed' = Later(elapsed, d)
        /\ answer' = IF ok THEN "llm_answer" ELSE "ERROR"
    /\ fetched_data' = <<>>
    /\ idx' = 0
    /\ pc' = "submit"
    /\ UNCHANGED <<platform_system, outcome, exc, current_url, quiz_count, html,
                   parsed, response, last_post, n_fetch, n_submit,
                   fn_call, fn_ret, fetch_frame, runs>>

\* submit_answer(submit_url, answer_url_json, answer): the POST leaves, or
\* httpx refuses the target.
SendAnswer ==
    /\ pc = "submit"
    /\ n_submit' = Count(n_submit)
    /\ last_post' = Post(parsed.submit_url, parsed.answer_url_json, answer)
    /\ IF IsHttpUrl(parsed.submit_url.s)
       THEN /\ pc' = "verdict"
            /\ UNCHANGED <<outcome, exc>>
       ELSE ExceptHandler("SubmissionError")
    /\ UNCHANGED <<platform_system, current_url, quiz_count, elapsed, html, parsed,
                   idx, fetched_data, answer, response, n_fetch,
                   fn_call, fn_ret, fetch_frame, runs>>

ReceiveVerdict_Resubmits ==
    /\ pc = "verdict"
    /\ \E reply \in ServerReplies, d \in Delays :
        /\ elapsed' = Later(elapsed, d)
        /\ IF reply.kind = "raise"
           THEN /\ ExceptHandler("SubmissionError")
                /\ UNCHANGED <<response, current_url, html, parsed, answer>>
           ELSE /\ response' = reply
                /\ IF reply.kind # "dict"
                   THEN /\ ExceptHandler("AttributeError")
                        /\ UNCHANGED <<current_url, html, parsed, answer>>
                   ELSE LET branch == VerdictBranch(reply)
                        IN  IF branch = "success"
                            THEN /\ Finish("success")
                                 /\ UNCHANGED <<current_url, html, parsed, answer>>
                            ELSE IF branch = "advance"
                            THEN /\ current_url' = reply.url.s
                                 /\ pc' = "loop"
                                 /\ html' = NoHtml
                                 /\ parsed' = NoParsed
                                 /\ answer' = ""
                                 /\ UNCHANGED <<outcome, exc>>
                            ELSE /\ pc' = "submit"
                                 /\ UNCHANGED <<current_url, html, parsed, answer,
                                                outcome, exc>>
    /\ last_post' = NoPost
    /\ UNCHANGED <<platform_system, quiz_count, idx, fetched_data, n_fetch,
                   n_submit, fn_call, fn_ret, fetch_frame, runs>>

\* resp.json() and the branch on the verdict (main.py:488-497).  The locals
\* html, parsed and answer are written again before they are next read, and
\* are forgotten here.
ReceiveVerdict ==
    /\ pc = "verdict"
    /\ \E reply \in ServerReplies, d \in Delays :
        /\ elapsed' = Later(elapsed, d)
        /\ IF reply.kind = "raise"
           THEN /\ ExceptHandler("SubmissionError")
                /\ UNCHANGED <<response, current_url>>
           ELSE /\ response' = reply
                /\ IF reply.kind # "dict"
                   THEN /\ ExceptHandler("AttributeError")
                        /\ current_url' = current_url
                   ELSE LET branch == VerdictBranch(reply)
                        IN  IF branch = "success"
                            THEN /\ Finish("success")
                                 /\ current_url' = current_url
                            ELSE /\ current_url' =
                                      IF branch = "advance" THEN reply.url.s
                                      ELSE current_url
                                 /\ pc' = "loop"
                                 /\ UNCHANGED <<outcome, exc>>
    /\ last_post' = NoPost
    /\ html' = NoHtml
    /\ parsed' = NoParsed
    /\ answer' = ""
    /\ UNCHANGED <<platform_system, quiz_count, idx, fetched_data, n_fetch,
                   n_submit, fn_call, fn_ret, fetch_frame, runs>>

Next ==
    \/ CapExit
    \/ TimeoutExit
    \/ StartIteration
    \/ FetchPage
    \/ ParsePage
    \/ ResolveSource
    \/ Synthesize
    \/ SendAnswer
    \/ ReceiveVerdict

Spec == Init /\ [][Next]_vars

\* Every awaited call returns: a step that can be taken is taken.
LiveSpec == Spec /\ WF_vars(Next)

---------------------------------------------------------------------------
\* fetch_data_source on its own: one call on one input in one environment.

\* An https and an http URL, an ftp URL, a bare name, and a host written
\* without its scheme that happens to begin with "http".
Prefixes ==
    {ORIGIN \o <<"/", "a">>, SCHEME_HTTP \o <<"x", "/", "a">>,
     <<"f", "t", "p", ":", "/", "/", "x", "/", "a">>, <<"a">>,
     HTTP \o <<"b", "i", "n", "/", "a">>}

SRC_CSV_A == ORIGIN \o <<"/", "a">> \o EXT_CSV

Suffixes == AudioExts \cup DataExts \cup {<<>>, <<".", "h", "t", "m", "l">>}

SourceInputs ==
    {JStr(pre \o suf) : pre \in Prefixes, suf \in Suffixes}
    \cup {JStr(<<>>), JNull, JNum}

InitFDS ==
    /\ platform_system \in Platforms
    /\ pc = "idle"
    /\ outcome = "none"
    /\ exc = "none"
    /\ current_url = U0
    /\ quiz_count = 0
    /\ elapsed = 0
    /\ html = NoHtml
    /\ parsed = NoParsed
    /\ idx = 0
    /\ fetched_data = <<>>
    /\ answer = ""
    /\ response = NoResponse
    /\ last_post = NoPost
    /\ n_fetch = 0
    /\ n_submit = 0
    /\ fn_call \in {[op |-> "fetch_data_source", source |-> src, env |-> env] :
                      src \in SourceInputs, env \in Envs}
    /\ fn_ret = [op |-> "none"]
    /\ fetch_frame = NoFrame
    /\ runs = <<>>

CallFetchDataSource ==
    /\ fn_call.op = "fetch_data_source"
    /\ fn_ret.op = "none"
    /\ fn_ret' = [op |-> "fetch_data_source",
                  result |-> fetch_data_source(fn_call.source, platform_system,
                                               fn_call.env),
                  calls |-> fetch_data_source_calls(fn_call.source,
                                                    platform_system, fn_call.env)]
    /\ UNCHANGED <<platform_system, chain_vars, fn_call, fetch_frame, runs>>

NextFDS == CallFetchDataSource

SpecFDS == InitFDS /\ [][NextFDS]_vars

---------------------------------------------------------------------------
\* fetch_quiz_page on its own, one statement at a time: one call on one URL.
\* The environment says where the browser block fails, if it does, and
\* whether a plain HTTP GET of the URL succeeds.

RenderFailPoints == {"enter", "launch", "new_page", "goto", "content", "close"}

FetchEnvs == [fail_at : RenderFailPoints \cup {"none"}, http : BOOLEAN]

FetchUrls == {U0, SRC_PAGE, REL_NEXT}

\* The environment of the step-by-step call, as the one-shot operator sees it.
AsEnv(fenv) == [render |-> fenv.fail_at = "none", http |-> fenv.http, llm |-> "ok"]

InitFetch ==
    /\ platform_system \in Platforms
    /\ pc = "idle"
    /\ outcome = "none"
    /\ exc = "none"
    /\ current_url = U0
    /\ quiz_count = 0
    /\ elapsed = 0
    /\ html = NoHtml
    /\ parsed = NoParsed
    /\ idx = 0
    /\ fetched_data = <<>>
    /\ answer = ""
    /\ response = NoResponse
    /\ last_post = NoPost
    /\ n_fetch = 0
    /\ n_submit = 0
    /\ fn_call \in {[op |-> "fetch_quiz_page", url |-> u, env |-> e] :
                      u \in FetchUrls, e \in FetchEnvs}
    /\ fn_ret = [op |-> "none"]
    /\ fetch_frame = [NoFrame EXCEPT !.at = "call"]
    /\ runs = <<>>

\* What leaving "async with async_playwright()" does to a browser or a page
\* of that Playwright instance: the instance is stopped, what it opened is closed.
Released_Leak(resource) == resource

Released(resource) == IF resource = "open" THEN "closed" ELSE resource

\* After the browser block: "return content" was reached, or the except
\* clause at line 86 runs.
AfterRender_AlwaysFallback(render) == "fallback"

AfterRender(render) == IF render = "ok" THEN "returned" ELSE "fallback"

\* A statement of the browser block raised: control leaves the block.
RenderRaises(exit_at) ==
    fetch_frame' = [fetch_frame EXCEPT !.at = exit_at, !.render = "failed"]

FetchFrameOnly ==
    UNCHANGED <<platform_system, chain_vars, fn_call, fn_ret, runs>>

\* Lines 60-72: on Windows one GET through httpx.AsyncClient, whose failure
\* is raised again.
FqWindowsGet ==
    /\ fetch_frame.at = "call"
    /\ platform_system = "Windows"
    /\ fetch_frame' =
          [fetch_frame EXCEPT
              !.tried = <<"httpx">>,
              !.via = IF HttpGetOk(fn_call.url, AsEnv(fn_call.env))
                      THEN "httpx" ELSE "none",
              !.at = IF HttpGetOk(fn_call.url, AsEnv(fn_call.env))
                     THEN "returned" ELSE "raised"]
    /\ FetchFrameOnly

\* Line 76: async with async_playwright() as p
FqEnterPlaywright ==
    /\ fetch_frame.at = "call"
    /\ platform_system # "Windows"
    /\ IF fn_call.env.fail_at = "enter"
       THEN fetch_frame' = [fetch_frame EXCEPT !.tried = <<"playwright">>,
                                               !.at = "fallback",
                                               !.render = "failed"]
       ELSE fetch_frame' = [fetch_frame EXCEPT !.tried = <<"playwright">>,
                                               !.at = "launch",
                                               !.playwright = TRUE]
    /\ FetchFrameOnly

\* Line 77: browser = await p.chromium.launch(headless=True)
FqLaunch ==
    /\ fetch_frame.at = "launch"
    /\ IF fn_call.env.fail_at = "launch"
       THEN RenderRaises("exit")
       ELSE fetch_frame' = [fetch_frame EXCEPT !.at = "new_page", !.browser = "open"]
    /\ FetchFrameOnly

\* Line 78: page = await browser.new_page()
FqNewPage ==
    /\ fetch_frame.at = "new_page"
    /\ IF fn_call.env.fail_at = "new_page"
       THEN RenderRaises("exit")
       ELSE fetch_frame' = [fetch_frame EXCEPT !.at = "goto", !.page = "open"]
    /\ FetchFrameOnly

\* Lines 79-80: page.goto(url, timeout=60000), wait_for_load_state("networkidle")
FqGoto ==
    /\ fetch_frame.at = "goto"
    /\ IF fn_call.env.fail_at = "goto" \/ ~IsHttpUrl(fn_call.url)
       THEN RenderRaises("exit")
       ELSE fetch_frame' = [fetch_frame EXCEPT !.at = "content"]
    /\ FetchFrameOnly

\* Line 81: content = await page.content()
FqContent ==
    /\ fetch_frame.at = "content"
    /\ IF fn_call.env.fail_at = "content"
       THEN RenderRaises("exit")
       ELSE fetch_frame' = [fetch_frame EXCEPT !.at = "close"]
    /\ FetchFrameOnly

\* Lines 83-84: await browser.close(), then return content
FqClose ==
    /\ fetch_frame.at = "close"
    /\ IF fn_call.env.fail_at = "close"
       THEN RenderRaises("exit")
       ELSE fetch_frame' = [fetch_frame EXCEPT !.at = "exit", !.render = "ok",
                                               !.via = "playwright",
                                               !.browser = "closed",
                                               !.page = "closed"]
    /\ FetchFrameOnly

\* Leaving the "async with" block of line 76, by return or by exception.
FqExitPlaywright ==
    /\ fetch_frame.at = "exit"
    /\ fetch_frame' = [fetch_frame EXCEPT !.playwright = FALSE,
                                          !.browser = Released(@),
                                          !.page = Released(@),
                                          !.at = AfterRender(fetch_frame.render)]
    /\ FetchFrameOnly

\* Lines 86-91: except Exception, then httpx.get(url, ...), whose failure leaves
\* the function.
FqFallbackGet ==
    /\ fetch_frame.at = "fallback"
    /\ fetch_frame' =
          [fetch_frame EXCEPT
              !.tried = Append(@, "httpx"),
              !.via = IF HttpGetOk(fn_call.url, AsEnv(fn_call.env))
                      THEN "httpx" ELSE "none",
              !.at = IF HttpGetOk(fn_call.url, AsEnv(fn_call.env))
                     THEN "returned" ELSE "raised"]
    /\ FetchFrameOnly

NextFetch ==
    \/ FqWindowsGet
    \/ FqEnterPlaywright
    \/ FqLaunch
    \/ FqNewPage
    \/ FqGoto
    \/ FqContent
    \/ FqClose
    \/ FqExitPlaywright
    \/ FqFallbackGet

SpecFetch == InitFetch /\ [][NextFetch]_vars

---------------------------------------------------------------------------
\* parse_quiz_with_llm on its own: one call on one text of the LLM.

InitParse ==
    /\ platform_system \in Platforms
    /\ pc = "idle"
    /\ outcome = "none"
    /\ exc = "none"
    /\ current_url = U0
    /\ quiz_count = 0
    /\ elapsed = 0
    /\ html = NoHtml
    /\ parsed = NoParsed
    /\ idx = 0
    /\ fetched_data = <<>>
    /\ answer = ""
    /\ response = NoResponse
    /\ last_post = NoPost
    /\ n_fetch = 0
    /\ n_submit = 0
    /\ fn_call \in {[op |-> "parse_quiz_with_llm", ok |-> ok, raw |-> raw] :
                      ok \in BOOLEAN, raw \in Texts}
    /\ fn_ret = [op |-> "none"]
    /\ fetch_frame = NoFrame
    /\ runs = <<>>

CallParseQuiz ==
    /\ fn_call.op = "parse_quiz_with_llm"
    /\ fn_ret.op = "none"
    /\ LET result == parse_quiz_with_llm(LlmText(fn_call.ok, fn_call.raw))
       IN  fn_ret' = [op |-> "parse_quiz_with_llm",
                      result |-> result,
                      message |-> IF result.raised = "RuntimeError"
                                  THEN ErrorText(fn_call.raw) ELSE <<>>]
    /\ UNCHANGED <<platform_system, chain_vars, fn_call, fetch_frame, runs>>

NextParse == CallParseQuiz

SpecParse == InitParse /\ [][NextParse]_vars

---------------------------------------------------------------------------
\* Two chain runs on one event loop.  handle_quiz starts each as a background
\* task; a task's frame holds the locals of its solve_quiz_chain call.  Each
\* task is followed one loop-head test and one iteration body at a time, and
\* beside each task runs.alone keeps the frame of the same call made alone and
\* given the same clock readings and the same outcomes of its iterations.

Tasks == {1, 2}

\* Iterations one task is followed through.
MaxRunIters == 2

\* The readings of time.time(): around the start and around the budget.
ClockValues == {0, 1, Budget, Budget + 1, Budget + 2}

IdleTask ==
    [pc |-> "idle", start_time |-> 0, current_url |-> <<>>, quiz_count |-> 0,
     outcome |-> "none", visited |-> <<>>]

\* No request has come in.  A request is the secret and the url of its body;
\* reply is the answer handle_quiz gave it, scheduled the number of background
\* tasks handle_quiz added for it.
NoRequest == [secret |-> "", url |-> <<>>, reply |-> "none", scheduled |-> 0]

\* How one iteration body can go: a call raises, the descriptor is malformed,
\* or a verdict object arrives.
BodyEvents ==
    {[kind |-> k, correct |-> "absent", url |-> JNull] : k \in {"raise", "malformed"}}
    \cup {r \in ServerReplies :
            /\ r.kind = "dict"
            /\ r.correct \in {"True", "False"}
            /\ r.url \in {JNull, JStr(U1)}}

\* Lines 440-442: start_time = time.time(); current_url = initial_url; quiz_count = 0
TaskStart(initial_url, t) ==
    [pc |-> "loop", start_time |-> t, current_url |-> initial_url,
     quiz_count |-> 0, outcome |-> "none", visited |-> <<>>]

\* Lines 446-451 on the frame f, time.time() returning t.
TaskLoopHead(f, t) ==
    IF ~LoopGuard(f.quiz_count)
    THEN [f EXCEPT !.pc = "done", !.outcome = "cap"]
    ELSE IF DeadlinePassed(t - f.start_time)
    THEN [f EXCEPT !.pc = "done", !.outcome = "timeout"]
    ELSE [f EXCEPT !.pc = "body", !.quiz_count = NextCount(@)]

\* Lines 454-501 on the frame f: the page at current_url is fetched, and the
\* iteration goes as ev says.
TaskBody(f, ev) ==
    LET g == [f EXCEPT !.visited = Append(@, f.current_url)]
    IN  IF ev.kind = "raise"
        THEN [g EXCEPT !.pc = "done", !.outcome = "error"]
        ELSE IF ev.kind = "malformed"
        THEN [g EXCEPT !.pc = "done", !.outcome = "malformed"]
        ELSE IF VerdictBranch(ev) = "success"
        THEN [g EXCEPT !.pc = "done", !.outcome = "success"]
        ELSE IF VerdictBranch(ev) = "advance"
        THEN [g EXCEPT !.pc = "loop", !.current_url = ev.url.s]
        ELSE [g EXCEPT !.pc = "loop"]

InitTwo ==
    /\ platform_system \in Platforms
    /\ pc = "idle"
    /\ outcome = "none"
    /\ exc = "none"
    /\ current_url = U0
    /\ quiz_count = 0
    /\ elapsed = 0
    /\ html = NoHtml
    /\ parsed = NoParsed
    /\ idx = 0
    /\ fetched_data = <<>>
    /\ answer = ""
    /\ response = NoResponse
    /\ last_post = NoPost
    /\ n_fetch = 0
    /\ n_submit = 0
    /\ fn_call = [op |-> "none"]
    /\ fn_ret = [op |-> "none"]
    /\ fetch_frame = NoFrame
    /\ runs = [now |-> 0,
               requests |-> [r \in Tasks |-> NoRequest],
               tasks |-> [r \in Tasks |-> IdleTask],
               alone |-> [r \in Tasks |-> IdleTask]]

\* A module-level counter in place of the local of line 442.
Frame_SharedCount(r) ==
    [runs.tasks[r] EXCEPT
        !.quiz_count = runs.tasks[1].quiz_count + runs.tasks[2].quiz_count]

\* The locals the statements of task r read: those of its own call.
Frame(r) == runs.tasks[r]

RunsOnly ==
    UNCHANGED <<platform_system, chain_vars, fn_call, fn_ret, fetch_frame>>

\* Time passes.
ClockTick ==
    /\ \E t \in ClockValues :
        /\ t > runs.now
        /\ runs' = [runs EXCEPT !.now = t]
    /\ RunsOnly

HandleQuiz_NoSecretCheck(r) ==
    /\ runs.requests[r].reply = "none"
    /\ \E secret \in {STUDENT_SECRET, "another_secret"}, url \in {U0, U1} :
        runs' = [runs EXCEPT !.requests[r] =
                    [secret |-> secret, url |-> url, reply |-> "accepted",
                     scheduled |-> 1]]
    /\ RunsOnly

\* handle_quiz: a request with the wrong secret is answered 403 and adds no
\* task; otherwise solve_quiz_chain(task.url) is added as a background task
\* and the request is answered "accepted".
HandleQuiz(r) ==
    /\ runs.requests[r].reply = "none"
    /\ \E secret \in {STUDENT_SECRET, "another_secret"}, url \in {U0, U1} :
        IF secret # STUDENT_SECRET
        THEN runs' = [runs EXCEPT !.requests[r] =
                        [secret |-> secret, url |-> url, reply |-> "403",
                         scheduled |-> 0]]
        ELSE runs' = [runs EXCEPT !.requests[r] =
                        [secret |-> secret, url |-> url, reply |-> "accepted",
                         scheduled |-> 1]]
    /\ RunsOnly

\* The background task added for request r starts, once the request has been
\* answered.
StartTask(r) ==
    /\ runs.requests[r].scheduled = 1
    /\ runs.tasks[r].pc = "idle"
    /\ runs' = [runs EXCEPT
                  !.tasks[r] = TaskStart(runs.requests[r].url, runs.now),
                  !.alone[r] = TaskStart(runs.requests[r].url, runs.now)]
    /\ RunsOnly

\* Task r tests the loop condition and the deadline.
TwoLoopHead(r) ==
    /\ runs.tasks[r].pc = "loop"
    /\ runs.tasks[r].quiz_count < MaxRunIters
    /\ runs' = [runs EXCEPT !.tasks[r] = TaskLoopHead(Frame(r), runs.now),
                            !.alone[r] = TaskLoopHead(@, runs.now)]
    /\ RunsOnly

\* Task r runs the body of one iteration.
TwoBody(r) ==
    /\ runs.tasks[r].pc = "body"
    /\ \E ev \in BodyEvents :
        runs' = [runs EXCEPT !.tasks[r] = TaskBody(Frame(r), ev),
                             !.alone[r] = TaskBody(@, ev)]
    /\ RunsOnly

NextTwo ==
    \/ ClockTick
    \/ \E r \in Tasks : HandleQuiz(r)
    \/ \E r \in Tasks : StartTask(r)
    \/ \E r \in Tasks : TwoLoopHead(r)
    \/ \E r \in Tasks : TwoBody(r)

SpecTwo == InitTwo /\ [][NextTwo]_vars

---------------------------------------------------------------------------
\* The calls of two chain runs on the one thread of the event loop.  A call
\* made with "await" hands the thread back while its result is awaited; a
\* call made without it keeps the thread until it returns.  runs.holder is the
\* task whose call keeps the thread, 0 when no call does.

\* The calls of one iteration on the world outside, by the line that makes them.
Calls ==
    {"page_get", "render", "fallback_get", "parse_llm", "source_get",
     "audio_get", "transcribe_llm", "synth_llm", "submit_post"}

\* client.get at 67, 231 and 314, the Playwright calls at 76-83 and
\* client.post at 425 are awaited; httpx.get at 91 and
\* llm_model.generate_content at 207, 273 and 403 are plain calls.
Awaited(call) == call \in {"page_get", "render", "audio_get", "source_get", "submit_post"}

\* A page is fetched by fetch_quiz_page: the first call of an iteration and
\* the call made for a data source that is a web page.
PageCalls(plat) == IF plat = "Windows" THEN {"page_get"} ELSE {"render"}

\* The calls that can follow the call that returned, fetching a page for the
\* iteration (quiz page) or for a data source.
CallsAfter(call, plat, for_source) ==
    LET sources == PageCalls(plat) \cup {"audio_get", "source_get"}
        next_step == sources \cup {"synth_llm"}
    IN  CASE call \in {"start", "submit_post"} -> PageCalls(plat)
          [] call \in {"page_get", "fallback_get"} ->
                IF for_source THEN next_step ELSE {"parse_llm"}
          [] call = "render" ->
                {"fallback_get"}
                    \cup (IF for_source THEN next_step ELSE {"parse_llm"})
          [] call = "parse_llm" -> next_step
          [] call = "audio_get" -> {"transcribe_llm"} \cup next_step
          [] call \in {"transcribe_llm", "source_get"} -> next_step
          [] call = "synth_llm" -> {"submit_post"}

InitLoop ==
    /\ platform_system \in Platforms
    /\ pc = "idle"
    /\ outcome = "none"
    /\ exc = "none"
    /\ current_url = U0
    /\ quiz_count = 0
    /\ elapsed = 0
    /\ html = NoHtml
    /\ parsed = NoParsed
    /\ idx = 0
    /\ fetched_data = <<>>
    /\ answer = ""
    /\ response = NoResponse
    /\ last_post = NoPost
    /\ n_fetch = 0
    /\ n_submit = 0
    /\ fn_call = [op |-> "none"]
    /\ fn_ret = [op |-> "none"]
    /\ fetch_frame = NoFrame
    /\ runs = [holder |-> 0,
               tasks |-> [r \in Tasks |->
                            [at |-> "start", in_call |-> FALSE, for_source |-> FALSE]]]

\* Task q can run: the thread is free, or kept by q's own call.
CanStep(q) == runs.holder \in {0, q}

\* Task r makes its next call.
BeginCall(r) ==
    /\ CanStep(r)
    /\ ~runs.tasks[r].in_call
    /\ \E c \in CallsAfter(runs.tasks[r].at, platform_system,
                           runs.tasks[r].for_source) :
        runs' = [runs EXCEPT
                    !.holder = IF Awaited(c) THEN 0 ELSE r,
                    !.tasks[r] =
                        [at |-> c, in_call |-> TRUE,
                         for_source |->
                            IF c \in PageCalls(platform_system)
                            THEN runs.tasks[r].at \notin {"start", "submit_post"}
                            ELSE IF c = "fallback_get"
                            THEN runs.tasks[r].for_source
                            ELSE FALSE]]
    /\ RunsOnly

\* The call of task r returns, or raises into a handler that goes on.
CallReturns(r) ==
    /\ CanStep(r)
    /\ runs.tasks[r].in_call
    /\ runs' = [runs EXCEPT !.holder = 0, !.tasks[r].in_call = FALSE]
    /\ RunsOnly

NextLoop ==
    \/ \E r \in Tasks : BeginCall(r)
    \/ \E r \in Tasks : CallReturns(r)

SpecLoop == InitLoop /\ [][NextLoop]_vars

---------------------------------------------------------------------------
\* solve_quiz_chain of main.py and solve_quiz_chain of terty.py side by side,
\* one whole iteration at a time, both given the same clock reading, the same
\* fetched page, the same parsed descriptor and the same verdict.  The
\* descriptors name no data sources: how sources are fetched is left out.

\* Iterations the two controllers are followed through.
MaxPairIters == 2

StartFrame ==
    [pc |-> "loop", current_url |-> U0, iters |-> 0, outcome |-> "none",
     visited |-> <<>>, posts |-> <<>>]

\* What the parser hands over for the page at cur: a complete descriptor, one
\* that answers for another page, one with no answer_url_json, one with an
\* empty question, one with an empty submit_url, a value that is not an
\* object, and NoParsed when the parser raised.
PairParsed(cur) ==
    {Descriptor(JStr(QUESTION), JStr(SUBMIT), JList(<<>>), JStr(cur)),
     Descriptor(JStr(QUESTION), JStr(SUBMIT), JList(<<>>), JStr(SRC_PAGE)),
     Descriptor(JStr(QUESTION), JStr(SUBMIT), JList(<<>>), JStr(<<>>)),
     Descriptor(JStr(<<>>), JStr(SUBMIT), JList(<<>>), JStr(cur)),
     Descriptor(JStr(QUESTION), JStr(<<>>), JList(<<>>), JStr(cur)),
     NonDict, NoParsed}

PairReplies ==
    {r \in ServerReplies :
        r.kind = "raise" \/ (r.correct \in {"True", "False"} /\ r.url \in {JNull, JStr(U1)})}

PairInputs(cur) ==
    [t : {0, Budget + 1}, page_ok : BOOLEAN, parsed : PairParsed(cur),
     reply : PairReplies]

Ended(f, how) == [f EXCEPT !.pc = "done", !.outcome = how]

\* Lines 487-497 of main.py, lines 346-360 of terty.py: the same text.
AfterVerdict(f, reply) ==
    IF reply.kind # "dict" THEN Ended(f, "error")
    ELSE IF VerdictBranch(reply) = "success" THEN Ended(f, "success")
    ELSE IF VerdictBranch(reply) = "advance"
    THEN [f EXCEPT !.current_url = reply.url.s]
    ELSE f

\* submit_answer, the same in both files: the POST, which httpx refuses
\* when the target is no http(s) URL, then the verdict.
Submitted(f, post, reply) ==
    LET g == [f EXCEPT !.posts = Append(@, [to |-> post.to, url |-> post.url])]
    IN  IF ~IsHttpUrl(post.to.s) THEN Ended(g, "error")
        ELSE AfterVerdict(g, reply)

\* One iteration of main.py:446-501.
MainIteration(f, in) ==
    IF ~LoopGuard(f.iters) THEN Ended(f, "cap")
    ELSE IF DeadlinePassed(in.t) THEN Ended(f, "timeout")
    ELSE LET g == [f EXCEPT !.iters = NextCount(@),
                            !.visited = Append(@, f.current_url)]
         IN  IF ~in.page_ok \/ in.parsed.t # "dict" THEN Ended(g, "error")
             ELSE IF IsMalformed(in.parsed) THEN Ended(g, "malformed")
             ELSE Submitted(g, Post(in.parsed.submit_url,
                                    in.parsed.answer_url_json, "llm_answer"),
                            in.reply)

\* One iteration of terty.py:307-364: no loop condition, no test of the
\* descriptor, and current_url as the url of the submission.
TertyIteration(f, in) ==
    IF DeadlinePassed(in.t) THEN Ended(f, "timeout")
    ELSE LET g == [f EXCEPT !.iters = @ + 1,
                            !.visited = Append(@, f.current_url)]
         IN  IF ~in.page_ok \/ in.parsed.t # "dict" THEN Ended(g, "error")
             ELSE Submitted(g, Post(in.parsed.submit_url, JStr(f.current_url),
                                    "llm_answer"),
                            in.reply)

InitPair ==
    /\ platform_system \in Platforms
    /\ pc = "idle"
    /\ outcome = "none"
    /\ exc = "none"
    /\ current_url = U0
    /\ quiz_count = 0
    /\ elapsed = 0
    /\ html = NoHtml
    /\ parsed = NoParsed
    /\ idx = 0
    /\ fetched_data = <<>>
    /\ answer = ""
    /\ response = NoResponse
    /\ last_post = NoPost
    /\ n_fetch = 0
    /\ n_submit = 0
    /\ fn_call = [op |-> "none"]
    /\ fn_ret = [op |-> "none"]
    /\ fetch_frame = NoFrame
    /\ runs = [main |-> StartFrame, terty |-> StartFrame]

\* Both controllers, as far as they are still running, go through one
\* iteration on the same input.
PairIteration ==
    /\ runs.main.pc # "done" \/ runs.terty.pc # "done"
    /\ runs.main.iters < MaxPairIters /\ runs.terty.iters < MaxPairIters
    /\ \E in \in PairInputs(runs.main.current_url) :
        runs' = [main |-> IF runs.main.pc = "done" THEN runs.main
                          ELSE MainIteration(runs.main, in),
                 terty |-> IF runs.terty.pc = "done" THEN runs.terty
                           ELSE TertyIteration(runs.terty, in)]
    /\ RunsOnly

NextPair == PairIteration

SpecPair == InitPair /\ [][NextPair]_vars

---------------------------------------------------------------------------
\* Properties of the chain controller.

\* DONE(failure): the run ended through the iteration cap, a malformed
\* descriptor or an exception.
DoneFailure == pc = "done" /\ outcome \in {"cap", "malformed", "error"}

\* C1.  When every call returns, a run against a server that never answers
\* correct=true, and in which no call raises and no descriptor is malformed,
\* eventually returns, through the deadline check or through the iteration cap.
C1_AdversarialTermination ==
    ([](~IsCorrect(response)) /\ [](outcome \notin {"error", "malformed"}))
        => <>(pc = "done" /\ outcome \in {"timeout", "cap"})

\* A run of 100 wrong answers stopped by the cap.
C1_Witness ==
    /\ pc = "done"
    /\ outcome = "cap"
    /\ n_submit = IterCap
    /\ response.kind = "dict"
    /\ ~IsCorrect(response)
    /\ current_url = U0

\* C2.  At most 100 iterations are started, and so at most 100 pages fetched
\* and 100 submissions sent; at the loop head with the count at 100 the run
\* ends in DONE(failure) without a further fetch or submission.
C2_IterationCap ==
    /\ [](/\ quiz_count <= IterCap
          /\ n_fetch <= quiz_count
          /\ n_submit <= quiz_count
          /\ (outcome = "cap" => pc = "done" /\ quiz_count = IterCap))
    /\ [][(pc = "loop" /\ quiz_count = IterCap)
            => /\ pc' = "done"
               /\ outcome' = "cap"
               /\ n_fetch' = n_fetch
               /\ n_submit' = n_submit]_vars

C2_Witness ==
    /\ DoneFailure
    /\ outcome = "cap"
    /\ quiz_count = IterCap
    /\ n_fetch = IterCap
    /\ n_submit = IterCap

\* C3.  At the start of an iteration with more than 170 seconds elapsed the
\* run ends in DONE(timeout), and nothing is fetched, parsed, synthesized or
\* submitted from then on.
C3_DeadlineStops ==
    [][/\ (pc = "loop" /\ quiz_count < IterCap /\ elapsed > Budget)
            => /\ pc' = "done"
               /\ outcome' = "timeout"
               /\ UNCHANGED <<n_fetch, n_submit, html, parsed, answer, last_post>>
       /\ outcome = "timeout"
            => /\ pc = "done"
               /\ UNCHANGED <<pc, n_fetch, n_submit, html, parsed, answer,
                              last_post, quiz_count>>]_vars

C3_Witness ==
    /\ pc = "done"
    /\ outcome = "timeout"
    /\ elapsed > Budget
    /\ quiz_count < IterCap
    /\ n_submit = quiz_count

\* C4.  A verdict that is not correct leaves current_url as it is and sends
\* the controller back to the loop head; every submission is made in an
\* iteration that has fetched current_url, parsed it and synthesized an answer
\* (one fetch and at most one submission per iteration).
C4_RetrySamePage ==
    /\ [][(pc = "verdict" /\ response'.kind = "dict" /\ ~IsCorrect(response'))
            => /\ current_url' = current_url
               /\ pc' = "loop"]_vars
    /\ [][pc = "loop" => pc' \in {"fetch", "done"}]_vars
    /\ [](pc \in {"parse", "resolve", "synth", "submit", "verdict"}
            => /\ n_fetch = quiz_count
               /\ html.src = current_url)
    /\ [](pc = "submit"
            => /\ parsed.t = "dict"
               /\ answer # ""
               /\ n_submit = quiz_count - 1)
    /\ [](pc = "verdict" => n_submit = quiz_count)

\* The second iteration, after a wrong answer, has fetched the same page again
\* and submitted again.
C4_Witness ==
    /\ pc = "verdict"
    /\ quiz_count = 2
    /\ current_url = U0
    /\ html.src = U0
    /\ n_fetch = 2
    /\ n_submit = 2

\* C5.  current_url is assigned only by the step that receives a verdict with
\* correct=true and a next url, and then becomes that url; every other step
\* leaves it alone, a correct=false verdict carrying a url included.
C5_UrlFrame ==
    [][IF pc = "verdict" /\ pc' = "loop" /\ IsCorrect(response')
       THEN Truthy(response'.url) /\ current_url' = response'.url.s
       ELSE current_url' = current_url]_vars

C5_Witness ==
    /\ pc = "loop"
    /\ IsCorrect(response)
    /\ response.url = JStr(U1)
    /\ current_url = U1

\* C6.  The run is in DONE(success) exactly when the latest verdict is
\* correct=true without a next url; it then has submitted once per iteration,
\* so a first verdict {correct: true, url: null} ends the run after one
\* iteration and one submission.
C6_SuccessIff ==
    /\ (outcome = "success") <=> (IsCorrect(response) /\ ~Truthy(response.url))
    /\ outcome = "success"
        => /\ pc = "done"
           /\ n_fetch = quiz_count
           /\ n_submit = quiz_count

C6_Witness ==
    /\ pc = "done"
    /\ outcome = "success"
    /\ response.url = JNull
    /\ quiz_count = 1
    /\ n_submit = 1

\* C7.  A descriptor whose submit_url or question is empty or missing ends
\* the run in DONE(failure) in the same step: no source is resolved, no answer
\* synthesized, nothing submitted, and the run does not go on.
C7_MalformedStops ==
    /\ [][(pc = "parse" /\ parsed'.t = "dict"
           /\ (~Truthy(parsed'.submit_url) \/ ~Truthy(parsed'.question)))
            => /\ pc' = "done"
               /\ outcome' = "malformed"]_vars
    /\ [](pc \in {"resolve", "synth", "submit", "verdict"}
            => Truthy(parsed.submit_url) /\ Truthy(parsed.question))
    /\ [](outcome = "malformed"
            => /\ DoneFailure
               /\ fetched_data = <<>>
               /\ idx = 0
               /\ answer = ""
               /\ last_post = NoPost
               /\ n_submit = quiz_count - 1)

\* A page with a question and data sources but no submit_url.
C7_Witness ==
    /\ pc = "done"
    /\ outcome = "malformed"
    /\ Truthy(parsed.question)
    /\ ~Truthy(parsed.submit_url)
    /\ parsed.data_sources.items # <<>>
    /\ n_submit = 0

\* C8.  An exception that reaches the handler of the loop body ends the run
\* in DONE(failure) at once: no iteration starts and nothing is fetched or
\* submitted afterwards.
C8_ExceptionStops ==
    /\ [](exc # "none" => DoneFailure /\ outcome = "error")
    /\ [][exc # "none"
            => UNCHANGED <<pc, quiz_count, n_fetch, n_submit, current_url>>]_vars

\* The submission of the second iteration failed in transport.
C8_Witness ==
    /\ pc = "done"
    /\ outcome = "error"
    /\ exc = "SubmissionError"
    /\ quiz_count = 2
    /\ n_submit = 2

---------------------------------------------------------------------------
\* Properties of the source resolver.

FdsReturned == fn_ret.op = "fetch_data_source"

\* The source is a string holding an absolute http(s) URL, the only kind the
\* resolver fetches, and no request to it succeeds.
UnreachableUrlCall ==
    /\ FdsReturned
    /\ fn_call.source.t = "str"
    /\ IsHttpUrl(fn_call.source.s)
    /\ Unreachable(fn_call.env)

IsAudioUrl(s) == \E e \in AudioExts : EndsWith(s, e)

C10_BadSourceContained ==
    /\ [][pc = "resolve"
            => /\ pc' = (IF idx = Len(parsed.data_sources.items)
                         THEN "synth" ELSE "resolve")
               /\ idx' = idx + 1
               /\ Len(fetched_data') = Len(fetched_data) + 1
               /\ outcome' = "none"
               /\ exc' = "none"]_vars
    /\ [](pc = "synth" => Len(fetched_data) = Len(parsed.data_sources.items))
    /\ [][pc = "synth" => pc' = "submit" /\ answer' # ""]_vars
    /\ [][pc = "submit" => n_submit' = n_submit + 1]_vars

\* The first of two sources failed and the second was resolved all the same.
C10_Witness ==
    /\ pc = "synth"
    /\ Len(fetched_data) = 2
    /\ fetched_data[1].kind = "ERROR"
    /\ fetched_data[2].kind = "CSV"

---------------------------------------------------------------------------
\* Properties of fetch_quiz_page.

FqDone == fetch_frame.at \in {"returned", "raised"}

\* The order the claim asks of the two strategies: the browser is the first
\* strategy tried, the HTTP GET is made only after the browser block failed,
\* the call raises only after both were tried, and a browser block that
\* returned is not followed by a GET.
RenderThenGet ==
    /\ fetch_frame.tried # <<>> => fetch_frame.tried[1] = "playwright"
    /\ fetch_frame.at = "fallback" => fetch_frame.render = "failed"
    /\ Len(fetch_frame.tried) = 2
          => fetch_frame.tried[2] = "httpx" /\ fetch_frame.render = "failed"
    /\ fetch_frame.at = "raised"
          => fetch_frame.tried = <<"playwright", "httpx">> /\ fetch_frame.via = "none"
    /\ fetch_frame.render = "ok" /\ FqDone
          => fetch_frame.tried = <<"playwright">> /\ fetch_frame.at = "returned"

\* C11 as stated.  fetch_quiz_page always tries the browser first and makes
\* the HTTP GET only after the browser failed, on every platform.
C11_RenderFirst == RenderThenGet

\* C11.  Off Windows, fetch_quiz_page tries the browser first, makes the HTTP
\* GET only after the browser block failed (at whichever statement), raises
\* only when both failed, and never makes the GET after the browser block
\* returned.  On Windows it never starts the browser: it makes one HTTP GET
\* and raises when that fails.  Either way the call ends as the one-shot
\* operator fetch_quiz_page says.
C11_StrategyOrder ==
    /\ IF platform_system = "Windows"
       THEN /\ fetch_frame.render = "none" /\ ~fetch_frame.playwright
            /\ FqDone => fetch_frame.tried = <<"httpx">>
       ELSE RenderThenGet
    /\ FqDone
          => fetch_quiz_page(fn_call.url, platform_system, AsEnv(fn_call.env))
                = PageResult(fetch_frame.at = "raised", fetch_frame.via,
                             fetch_frame.tried)

\* The browser failed at goto and the GET then succeeded.
C11_Witness ==
    /\ platform_system = "Linux"
    /\ fn_call.env.fail_at = "goto"
    /\ fetch_frame.at = "returned"
    /\ fetch_frame.tried = <<"playwright", "httpx">>
    /\ fetch_frame.via = "httpx"

\* C12.  No browser, page or Playwright instance opened by fetch_quiz_page is
\* still open when the call returns or raises, nor while the fallback GET is
\* being made.
C12_ResourcesReleased ==
    fetch_frame.at \in {"fallback", "returned", "raised"}
        => /\ fetch_frame.browser # "open"
           /\ fetch_frame.page # "open"
           /\ ~fetch_frame.playwright

\* The page was opened, navigation failed, and the call ended with nothing
\* left open.
C12_Witness ==
    /\ fn_call.env.fail_at = "goto"
    /\ FqDone
    /\ fetch_frame.browser = "closed"
    /\ fetch_frame.page = "closed"
    /\ fetch_frame.render = "failed"

---------------------------------------------------------------------------
\* Properties of the submitter and of the verdict.

\* C13.  Every POST submit_answer issues carries the configured secret,
\* whatever the page, the descriptor, the answer and the earlier verdicts were.
C13_SecretIsConfigured ==
    /\ [](last_post # NoPost => last_post.secret = STUDENT_SECRET)
    /\ [][pc = "submit" => /\ last_post' # NoPost
                           /\ last_post'.secret = STUDENT_SECRET]_vars

\* A second submission, on the page a verdict led to, with the answer the
\* synthesizer gives when its LLM call failed.
C13_Witness ==
    /\ pc = "verdict"
    /\ current_url = U1
    /\ answer = "ERROR"
    /\ last_post.to = JStr(SUBMIT)
    /\ last_post.secret = STUDENT_SECRET

\* C14.  A verdict object whose "correct" is absent, or is anything but the
\* boolean true, is taken as a wrong answer: the run does not end, the page
\* does not change, and the loop is entered again for the same page.
C14_MissingCorrectIsWrong ==
    [][(/\ pc = "verdict"
        /\ response'.kind = "dict"
        /\ response'.correct \in {"absent", "truthy", "False"})
          => /\ pc' = "loop"
             /\ outcome' = "none"
             /\ exc' = "none"
             /\ current_url' = current_url
             /\ quiz_count' = quiz_count]_vars

\* A verdict with a truthy non-boolean "correct" and a next URL was received:
\* the run is back at the loop start on the page it was on.
C14_Witness ==
    /\ pc = "loop"
    /\ response.kind = "dict"
    /\ response.correct = "truthy"
    /\ response.url = JStr(U1)
    /\ current_url = U0
    /\ outcome = "none"

---------------------------------------------------------------------------
\* Properties of the URLs the controller passes on.

\* The descriptor passed the test of main.py:468 and is in use.
DescriptorAccepted == pc \in {"resolve", "synth", "submit", "verdict"}

\* C15.  In every descriptor the controller accepts, submit_url is not one of
\* the data_sources, and no section of fetched_data was fetched from it.
C15_SubmitUrlNotASource ==
    DescriptorAccepted
        => /\ \A i \in 1..Len(parsed.data_sources.items) :
                 parsed.data_sources.items[i] # parsed.submit_url
           /\ \A i \in 1..Len(fetched_data) :
                 fetched_data[i].source # parsed.submit_url

\* C16.  The URL fetch_quiz_page is about to be called with at main.py:457,
\* the target of every POST of submit_answer, and the source of every section
\* that came from a network fetch are absolute http(s) URLs.
C16_UrlsAbsolute ==
    /\ pc = "fetch" => IsHttpUrl(current_url)
    /\ last_post # NoPost => last_post.to.t = "str" /\ IsHttpUrl(last_post.to.s)
    /\ \A i \in 1..Len(fetched_data) :
          (fetched_data[i].label = "typed" /\ fetched_data[i].kind # "unknown")
              => IsHttpUrl(fetched_data[i].source.s)

---------------------------------------------------------------------------
\* Properties of fetch_data_source, continued.

\* The string names no scheme: "://" occurs nowhere in it.
NoScheme(s) ==
    ~\E i \in 1..Len(s) : i + 2 <= Len(s) /\ SubSeq(s, i, i + 2) = <<":", "/", "/">>

\* C17.  A source string that is not an absolute URL is answered with kind
\* unknown, without raising and without a browser launch, an HTTP request or
\* an LLM call.
C17_NonAbsoluteRejected ==
    (FdsReturned /\ fn_call.source.t = "str" /\ NoScheme(fn_call.source.s))
        => /\ ~fn_ret.result.raised
           /\ fn_ret.result.kind = "unknown"
           /\ fn_ret.calls = <<>>

\* C18.  For an http(s) URL that ends in an audio extension the result has
\* kind "AUDIO (Transcribed)" and its content is a transcript that is not
\* empty or the failure marker.
C18_AudioTranscriptOrMarker ==
    (/\ FdsReturned
     /\ fn_call.source.t = "str"
     /\ IsHttpUrl(fn_call.source.s)
     /\ IsAudioUrl(fn_call.source.s))
        => /\ ~fn_ret.result.raised
           /\ fn_ret.result.kind = "AUDIO (Transcribed)"
           /\ fn_ret.result.content \in {"transcript", "transcription_failed_marker"}

---------------------------------------------------------------------------
\* The run against a server that never accepts an answer.

\* No verdict so far was correct=true: such a verdict ends the run with
\* success or moves it off the first page, and no verdict leads back to it.
NeverAccepted == current_url = U0 /\ outcome # "success"

\* The run has ended, no verdict was correct=true, and the end was neither an
\* exception nor a malformed descriptor.
AdversarialEnd ==
    pc = "done" /\ NeverAccepted /\ outcome \notin {"error", "malformed"}

\* C19 as stated.  The run against a server that never accepts an answer
\* ends in DONE(timeout).
C19_EndsInTimeout == AdversarialEnd => outcome = "timeout"

\* C19.  The run against a server that never accepts an answer ends, either
\* in DONE(timeout), at a loop-start check made with more than 170 seconds
\* elapsed and before the 100th iteration was started, or, when 100 iterations
\* were completed first, through the iteration cap; the timeout exit is never
\* taken with less than 170 seconds elapsed, and never more than 100
\* iterations are started.
C19_TimeoutOrCap ==
    /\ [](AdversarialEnd
            => \/ outcome = "timeout" /\ elapsed > Budget /\ quiz_count < IterCap
               \/ outcome = "cap" /\ quiz_count = IterCap)
    /\ [][(outcome # "timeout" /\ outcome' = "timeout")
            => pc = "loop" /\ elapsed >= Budget /\ elapsed' = elapsed]_vars
    /\ [](quiz_count <= IterCap /\ n_fetch <= IterCap /\ n_submit <= IterCap)
    /\ ([](NeverAccepted /\ outcome \notin {"error", "malformed"})
            => <>(pc = "done" /\ outcome \in {"timeout", "cap"}))

\* Three wrong answers, each after long calls, and the deadline check ended
\* the run at the start of the fourth iteration.
C19_Witness ==
    /\ pc = "done"
    /\ outcome = "timeout"
    /\ current_url = U0
    /\ response.kind = "dict"
    /\ response.correct = "False"
    /\ quiz_count = 3
    /\ n_submit = 3
    /\ elapsed > Budget

---------------------------------------------------------------------------
\* Two runs at once.

---------------------------------------------------------------------------
\* The event loop.

\* C21.  Whatever call a run is waiting on, another run can take a step.
C21_EveryCallSuspends ==
    \A r \in Tasks :
        runs.tasks[r].in_call => \A q \in Tasks \ {r} : CanStep(q)

---------------------------------------------------------------------------
\* Properties of the synthesis step.

\* C22.  The sources are resolved one at a time in the order of data_sources:
\* each turn of the loop adds the section of the source at idx after the
\* sections already there, and when the synthesis call is made the sections
\* name the sources of data_sources, duplicates included, in the same order.
C22_SourcesInOrder ==
    /\ [](pc = "resolve" => Len(fetched_data) = idx - 1)
    /\ [](pc \in {"resolve", "synth"}
            => \A i \in 1..Len(fetched_data) :
                  fetched_data[i].source = parsed.data_sources.items[i])
    /\ [](pc = "synth" => Len(fetched_data) = Len(parsed.data_sources.items))
    /\ [][pc = "resolve"
            => /\ Len(fetched_data') = Len(fetched_data) + 1
               /\ SubSeq(fetched_data', 1, Len(fetched_data)) = fetched_data
               /\ fetched_data'[Len(fetched_data')].source
                     = parsed.data_sources.items[idx]]_vars

\* A file named twice was fetched twice, one section each, the first fetch
\* failing and the second not.
C22_Witness ==
    /\ pc = "synth"
    /\ parsed.data_sources.items = <<JStr(SRC_CSV), JStr(SRC_CSV)>>
    /\ Len(fetched_data) = 2
    /\ fetched_data[1].source = fetched_data[2].source
    /\ fetched_data[1].kind = "ERROR"
    /\ fetched_data[2].kind = "CSV"

---------------------------------------------------------------------------
\* The front door.

\* C23.  A request whose secret is not the configured one is answered 403
\* and no chain run is ever started for it.  A request with the configured
\* secret has exactly one background run added, for the url of the request,
\* and is answered "accepted" before that run has started; the answer, once
\* given, is never changed by what the run does.
C23_FrontDoor ==
    /\ [](\A r \in Tasks :
            /\ runs.requests[r].reply = "403"
                  => /\ runs.requests[r].secret # STUDENT_SECRET
                     /\ runs.requests[r].scheduled = 0
                     /\ runs.tasks[r] = IdleTask
            /\ runs.requests[r].reply = "accepted"
                  => /\ runs.requests[r].secret = STUDENT_SECRET
                     /\ runs.requests[r].scheduled = 1
            /\ runs.tasks[r] # IdleTask => runs.requests[r].reply = "accepted")
    /\ [][\A r \in Tasks :
            /\ (runs.requests[r].reply = "none" /\ runs'.requests[r].reply # "none")
                  => /\ runs'.tasks[r] = IdleTask
                     /\ runs'.requests[r].reply \in {"403", "accepted"}
            /\ runs.requests[r].reply # "none"
                  => runs'.requests[r] = runs.requests[r]
            /\ (runs.tasks[r] = IdleTask /\ runs'.tasks[r] # IdleTask)
                  => runs'.tasks[r] = TaskStart(runs.requests[r].url, runs.now)]_vars

\* One request was turned away and has no run; the other was accepted, and
\* its run has since ended in an error without the answer changing.
C23_Witness ==
    /\ runs.requests[1].reply = "403"
    /\ runs.tasks[1] = IdleTask
    /\ runs.requests[2].reply = "accepted"
    /\ runs.requests[2].url = U1
    /\ runs.tasks[2].pc = "done"
    /\ runs.tasks[2].outcome = "error"
    /\ runs.tasks[2].visited = <<U1>>

---------------------------------------------------------------------------
\* Properties of parse_quiz_with_llm.

ParseReturned == fn_ret.op = "parse_quiz_with_llm" /\ fn_call.ok

\* C24.  On the text of the LLM, parse_quiz_with_llm returns what json.loads
\* makes of the whole text when that succeeds; otherwise what json.loads makes
\* of the text from the first "{" to the last "}" when both are there and that
\* succeeds; otherwise it raises RuntimeError with the first 200 characters of
\* the text, and returns nothing.
C24_ThreeStages ==
    ParseReturned
        => IF JsonLoads(fn_call.raw).ok
           THEN fn_ret.result = ParseResult("none", JsonLoads(fn_call.raw).value)
           ELSE IF /\ "{" \in {fn_call.raw[i] : i \in 1..Len(fn_call.raw)}
                   /\ "}" \in {fn_call.raw[i] : i \in 1..Len(fn_call.raw)}
                   /\ JsonLoads(Braced(fn_call.raw)).ok
           THEN fn_ret.result
                    = ParseResult("none", JsonLoads(Braced(fn_call.raw)).value)
           ELSE /\ fn_ret.result = ParseResult("RuntimeError", NoParsed)
                /\ fn_ret.message = SubSeq(fn_call.raw, 1, Len(fn_ret.message))
                /\ Len(fn_ret.message) = Len(fn_call.raw)
                      \/ Len(fn_ret.message) = PrefixLen

\* An object with text before it: the whole text is not JSON, the braced
\* part is, and it is what is returned.
C24_Witness ==
    /\ ParseReturned
    /\ fn_call.raw = <<"x", "{", "v", "}">>
    /\ fn_ret.result.raised = "none"
    /\ fn_ret.result.value.t = "dict"
    /\ Truthy(fn_ret.result.value.question)

---------------------------------------------------------------------------
\* The two controllers.

\* C25.  Given the same pages, descriptors and verdicts, the controller of
\* main.py and the controller of terty.py are at every moment on the same
\* current_url, have visited the same URLs, have sent submissions to the same
\* endpoints with the same url field, and have stopped, or not, in the same
\* iteration with the same outcome.
C25_SameControl == runs.main = runs.terty

---------------------------------------------------------------------------
\* Properties of a failed synthesis.

\* C26.  A failure of the synthesis LLM call does not end the run: the step
\* from the synthesis call always goes on to the submission, with the model's
\* text or with the literal "ERROR" as the answer and the outcome untouched;
\* an answer "ERROR" is then sent in exactly one submission; and the verdict
\* on it is branched on as on any other: success ends the run, a correct
\* verdict with a url moves to that url, anything else retries the same page.
C26_ErrorIsSubmitted ==
    /\ [][pc = "synth"
            => /\ pc' = "submit"
               /\ answer' \in {"llm_answer", "ERROR"}
               /\ UNCHANGED <<outcome, n_submit, last_post>>]_vars
    /\ [][pc = "submit" /\ answer = "ERROR"
            => /\ n_submit' = Count(n_submit)
               /\ last_post' = Post(parsed.submit_url, parsed.answer_url_json, "ERROR")
               /\ pc' \in {"verdict", "done"}
               /\ pc' = "verdict" <=> IsHttpUrl(parsed.submit_url.s)]_vars
    /\ [][pc = "verdict" /\ answer = "ERROR"
            => /\ n_submit' = n_submit
               /\ response'.kind = "dict" /\ exc' # "SubmissionError"
                    => LET branch == VerdictBranch(response')
                       IN  /\ branch = "success" <=> outcome' = "success"
                           /\ branch = "success" <=> pc' = "done"
                           /\ branch = "advance" => current_url' = response'.url.s
                           /\ branch = "retry" => current_url' = current_url]_vars

\* The synthesis call failed and the answer "ERROR" has been posted; the run
\* waits for the verdict.
C26_Witness ==
    /\ pc = "verdict"
    /\ outcome = "none"
    /\ answer = "ERROR"
    /\ last_post.answer = "ERROR"
    /\ last_post.to = JStr(SUBMIT)
    /\ n_submit >= 1

---------------------------------------------------------------------------
\* Properties of the url field of a submission.

\* C27.  The url field of every submission is a non-empty URL: the
\* descriptor's answer_url_json when the descriptor has one, the URL of the
\* current page otherwise.
C27_UrlFieldNonEmpty ==
    last_post # NoPost
        => /\ last_post.url.t = "str"
           /\ last_post.url.s # <<>>
           /\ last_post.url = IF Truthy(parsed.answer_url_json)
                              THEN parsed.answer_url_json
                              ELSE JStr(current_url)

====
